---- MODULE Spec2Model ----
(***************************************************************************)
(* A model of the request / session / error pipeline of the wda client    *)
(* (src/wda/__init__.py): BaseClient._fetch, the retry wrappers, the       *)
(* session_id property, session(), tap(), close(), the URLs of the         *)
(* session-scoped requests, and Alert.watch_and_click.                     *)
(*                                                                         *)
(* Every HTTP exchange is one atomic step: the request is issued and the   *)
(* remote's answer, drawn from a bounded set, is handed to _fetch.  The    *)
(* Python call stack of each thread is an explicit sequence of frames.     *)
(***************************************************************************)
EXTENDS Naturals, Sequences, FiniteSets, TLC

VARIABLES
    raw,         \* the last raw HTTP response handed to the classifier (SpecFetch)
    fres,        \* what _fetch made of it: a returned envelope or a raised error
    url,         \* the last session-scoped URL built, with what it was built from (SpecUrl)
    session_id,  \* session_id[c]: BaseClient.__session_id of client instance c ("" = None)
    stack,       \* stack[t]: call stack of thread t, innermost frame first
    ret,         \* ret[t]: what the frame that last finished in thread t returned or raised
    cnt,         \* cnt[t]: requests thread t issued since its current call (or poll) started
    call,        \* the current (or last) foreground call
    watch,       \* the watch_and_click scope: event flag, buttons, thread and block status
    watch2,      \* a second watch_and_click scope, nested in the first or after it
    ready        \* a wait_ready call: its deadline, the clock and its result (SpecReady)

vars == <<raw, fres, url, ready, watch2, session_id, stack, ret, cnt, call, watch>>

(***************************************************************************)
(* Bounds of the model.                                                    *)
(***************************************************************************)
MaxDepth == 5      \* frames on one thread's stack
MaxClients == 3    \* client instances alive in one run

(***************************************************************************)
(* wda.exceptions: the error kinds and their check predicates.             *)
(***************************************************************************)
None == "None"

\* The message of an error value is modelled by the set of marker phrases it
\* contains: "x in message" is membership.
Phrases == {"possibly crashed", "keyboard must be present to send keys"}

ErrorCodes == {"", "invalid session id", "invalid element state",
               "stale element reference", "unknown error", "no such alert"}

\* dict.get(key, default)
Get(d, key, default) == IF key \in DOMAIN d THEN d[key] ELSE default

WDAInvalidSessionIdError_check(v) == Get(v, "error", None) = "invalid session id"

WDAPossiblyCrashedError_check(v) == "possibly crashed" \in Get(v, "message", {})

WDAKeyboardNotPresentError_check(v) ==
    /\ Get(v, "error", None) = "invalid element state"
    /\ "keyboard must be present to send keys" \in Get(v, "message", {})

WDAStaleElementReferenceError_check(v) == Get(v, "error", None) = "stale element reference"

WDAUnknownError_check(v) == Get(v, "error", None) = "unknown error"

check(err_cls, v) ==
    CASE err_cls = "WDAInvalidSessionIdError" -> WDAInvalidSessionIdError_check(v)
      [] err_cls = "WDAPossiblyCrashedError" -> WDAPossiblyCrashedError_check(v)
      [] err_cls = "WDAKeyboardNotPresentError" -> WDAKeyboardNotPresentError_check(v)
      [] err_cls = "WDAStaleElementReferenceError" -> WDAStaleElementReferenceError_check(v)
      [] err_cls = "WDAUnknownError" -> WDAUnknownError_check(v)

\* The classified kinds derive from WDARequestError; WDARequestError,
\* WDABadGateway and WDAEmptyResponseError derive from WDAError.
RequestErrorKinds == {"WDARequestError", "WDAInvalidSessionIdError",
                      "WDAPossiblyCrashedError", "WDAKeyboardNotPresentError",
                      "WDAStaleElementReferenceError", "WDAUnknownError"}

ErrorKinds == RequestErrorKinds \cup {"WDAError", "WDABadGateway", "WDAEmptyResponseError"}

isinstance(e, cls) ==
    CASE cls = "WDAError" -> e.cls \in ErrorKinds
      [] cls = "WDARequestError" -> e.cls \in RequestErrorKinds
      [] OTHER -> e.cls = cls

(***************************************************************************)
(* BaseClient._fetch, from the raw response on.                            *)
(***************************************************************************)
ERROR == 110

\* dict.pop(key, None) on a copy
Pop(d, key) == [k \in (DOMAIN d) \ {key} |-> d[k]]

Raise(e) == [k |-> "raise", v |-> e]
Return(x) == [k |-> "ok", v |-> x]

\* retjson["status"] = 0, whether the remote gave a status or not
setdefault_status_zero(retjson) ==
    [k \in (DOMAIN retjson) \cup {"status"} |-> IF k = "status" THEN 0 ELSE retjson[k]]

\* retjson.setdefault("status", 0)
setdefault_status(retjson) ==
    IF "status" \in DOMAIN retjson THEN retjson
    ELSE [k \in (DOMAIN retjson) \cup {"status"} |->
            IF k = "status" THEN 0 ELSE retjson[k]]

\* the order of the loop over the error classes
err_classes == <<"WDAInvalidSessionIdError", "WDAPossiblyCrashedError",
                 "WDAKeyboardNotPresentError", "WDAStaleElementReferenceError",
                 "WDAUnknownError">>

\* bool(x) of an error field
Truthy(x) == x # None /\ x # ""

\* for err_cls in (...): if err_cls.check(value): raise err_cls(status, value)
\* raise WDARequestError(status, value)
RECURSIVE classify_from(_, _, _)
classify_from(i, status, value) ==
    IF i > Len(err_classes)
    THEN Raise([cls |-> "WDARequestError", status |-> status, value |-> value])
    ELSE IF check(err_classes[i], value)
         THEN Raise([cls |-> err_classes[i], status |-> status, value |-> value])
         ELSE classify_from(i + 1, status, value)

\* classify with the PossiblyCrashed predicate moved to the front of the order
classify_crash_first(status, value) ==
    IF check("WDAPossiblyCrashedError", value)
    THEN Raise([cls |-> "WDAPossiblyCrashedError", status |-> status, value |-> value])
    ELSE classify_from(1, status, value)

classify(status, value) == classify_from(1, status, value)

_fetch(resp) ==
    IF resp.exc THEN Raise([cls |-> "WDAError"])
    ELSE IF resp.status_code = 502 THEN Raise([cls |-> "WDABadGateway"])
    ELSE IF resp.text \in {"", " "} THEN Raise([cls |-> "WDAEmptyResponseError"])
    ELSE IF resp.text # "json" THEN Raise([cls |-> "WDAError"])
    ELSE LET r == setdefault_status(resp.json)
         IN  IF r.value.dict /\ Truthy(Get(r.value.d, "error", None))
             THEN classify(ERROR, Pop(r.value.d, "traceback"))
             ELSE Return(r)

(***************************************************************************)
(* URLs: BaseClient.__init__ and the urljoin calls of _fetch.  A URL is a  *)
(* host and the segments of its path, "http://h/a/b/" being <<"a", "b",    *)
(* "">>; a relative reference is its segments, absolute when it is written *)
(* with a leading "/".                                                     *)
(***************************************************************************)
Url(host, path) == [host |-> host, path |-> path]

Rel(abs, segs) == [abs |-> abs, segs |-> segs]

Front(q) == SubSeq(q, 1, Len(q) - 1)

\* a constructor that keeps the url as it is written
init_url_raw(u) == u

\* if not url.endswith("/"): url += '/'
init_url(u) ==
    IF u.path # <<>> /\ u.path[Len(u.path)] = "" THEN u ELSE Url(u.host, Append(u.path, ""))

\* urllib.parse.urljoin for a reference without scheme, host, query or dot
\* segments: the empty reference is the base, a reference with a leading "/"
\* replaces the path, any other replaces the last segment of the base
urljoin(base, ref) ==
    IF ref.segs = <<>> /\ ~ref.abs THEN base
    ELSE IF ref.abs THEN Url(base.host, ref.segs)
    ELSE Url(base.host, Front(base.path) \o ref.segs)

\* url = urljoin(self.__wda_url, f"session/{self.session_id}/")
\* url = urljoin(url, urlpath)
session_url(wda_url, sid, urlpath) ==
    urljoin(urljoin(wda_url, Rel(FALSE, <<"session", sid, "">>)), urlpath)

\* the url argument of the constructor
UrlArgs ==
    {Url("http://h:8100", q) :
        q \in {<<>>, <<"">>, <<"proxy">>, <<"proxy", "">>, <<"a", "b">>, <<"a", "b", "">>}}

\* the paths the operations of the client pass to self._session_http
UrlPaths ==
    {Rel(FALSE, <<>>), Rel(TRUE, <<"">>), Rel(TRUE, <<"appium", "settings">>),
     Rel(FALSE, <<"wda", "screen">>), Rel(FALSE, <<"wda", "batteryInfo">>),
     Rel(FALSE, <<"wda", "device", "info">>), Rel(FALSE, <<"wda", "apps", "launch">>),
     Rel(FALSE, <<"wda", "apps", "state">>), Rel(FALSE, <<"wda", "tap">>),
     Rel(FALSE, <<"wda", "tap", "0">>), Rel(FALSE, <<"wda", "keys">>),
     Rel(FALSE, <<"orientation">>), Rel(FALSE, <<"window", "size">>),
     Rel(FALSE, <<"url">>), Rel(FALSE, <<"alert", "accept">>),
     Rel(FALSE, <<"wda", "alert", "buttons">>), Rel(FALSE, <<"wda", "apps", "activate">>),
     Rel(FALSE, <<"wda", "apps", "terminate">>), Rel(FALSE, <<"wda", "pressButton">>),
     Rel(FALSE, <<"wda", "touchAndHold">>)}

NoUrl == [arg |-> Url("", <<"">>), wda_url |-> Url("", <<"">>), sid |-> "",
          urlpath |-> Rel(FALSE, <<>>), plain |-> Url("", <<"">>), url |-> Url("", <<"">>)]

(***************************************************************************)
(* What the remote may answer.                                             *)
(***************************************************************************)
\* a JSON object value with the given fields present
MkDict(has_e, e, has_m, m, has_t) ==
    [k \in (IF has_e THEN {"error"} ELSE {}) \cup (IF has_m THEN {"message"} ELSE {})
           \cup (IF has_t THEN {"traceback"} ELSE {}) |->
        CASE k = "error" -> e [] k = "message" -> m [] k = "traceback" -> "tb"]

DictValues ==
    {[dict |-> TRUE, d |-> MkDict(has_e, e, has_m, m, has_t)] :
        has_e \in BOOLEAN, e \in ErrorCodes, has_m \in BOOLEAN,
        m \in SUBSET Phrases, has_t \in BOOLEAN}

ScalarValues == {[dict |-> FALSE, x |-> "text"], [dict |-> FALSE, x |-> "error"]}

\* the decoded body: "status" may be missing
Envelopes ==
    {[value |-> v, sessionId |-> "s1"] : v \in DictValues \cup ScalarValues}
    \cup {[status |-> st, value |-> v, sessionId |-> "s1"] :
            st \in {0, 13}, v \in DictValues \cup ScalarValues}

NoJson == [value |-> [dict |-> FALSE, x |-> None], sessionId |-> None]

HttpResponse(code, text, json) ==
    [exc |-> FALSE, status_code |-> code, text |-> text, json |-> json]

\* requests.RequestException
NetworkFault == [exc |-> TRUE, status_code |-> 0, text |-> "", json |-> NoJson]

RawResponses ==
    {NetworkFault}
    \cup {HttpResponse(code, text, NoJson) :
            code \in {200, 500, 502}, text \in {"", " ", "<html>"}}
    \cup {HttpResponse(code, "json", j) : code \in {200, 502}, j \in Envelopes}

(***************************************************************************)
(* SpecFetch: _fetch applied to every raw response.                        *)
(***************************************************************************)
NoRaw == [exc |-> FALSE, status_code |-> 0, text |-> "none", json |-> NoJson]

InitFetch ==
    /\ raw = NoRaw
    /\ fres = Return(None)
    /\ url = NoUrl
    /\ ready = None
    /\ watch2 = None
    /\ session_id = <<"">>
    /\ stack = <<>>
    /\ ret = <<>>
    /\ cnt = <<>>
    /\ call = None
    /\ watch = None

FetchResponse ==
    /\ \E resp \in RawResponses :
        /\ raw' = resp
        /\ fres' = _fetch(resp)
    /\ UNCHANGED <<url, ready, watch2, session_id, stack, ret, cnt, call, watch>>

NextFetch == FetchResponse

SpecFetch == InitFetch /\ [][NextFetch]_vars

(***************************************************************************)
(* The remote's answers to the requests of the session machine.            *)
(***************************************************************************)
SessionIds == {"s1", "s2"}

(***************************************************************************)
(* SpecUrl: the URL of a session-scoped request of a client that holds an  *)
(* id.                                                                     *)
(***************************************************************************)
InitUrl == InitFetch

SessionUrl ==
    /\ \E u \in UrlArgs, sid \in SessionIds, urlpath \in UrlPaths :
        url' = [arg |-> u, wda_url |-> init_url(u), sid |-> sid, urlpath |-> urlpath,
                plain |-> urljoin(init_url(u), urlpath),
                url |-> session_url(init_url(u), sid, urlpath)]
    /\ UNCHANGED <<raw, fres, ready, watch2, session_id, stack, ret, cnt, call, watch>>

NextUrl == SessionUrl

SpecUrl == InitUrl /\ [][NextUrl]_vars

Json(value, sid) == HttpResponse(200, "json", [value |-> value, sessionId |-> sid])

Scalar(x) == [dict |-> FALSE, x |-> x]

ErrorValue(e, m) == [dict |-> TRUE, d |-> [error |-> e, message |-> m, traceback |-> "tb"]]

\* one answer for each way a request can fail
FailResponses ==
    {NetworkFault,
     HttpResponse(502, "<html>", NoJson),
     HttpResponse(200, "", NoJson),
     HttpResponse(200, "<html>", NoJson),
     Json(ErrorValue("invalid session id", {}), ""),
     Json(ErrorValue("unknown error", {"possibly crashed"}), ""),
     Json(ErrorValue("invalid element state", {"keyboard must be present to send keys"}), ""),
     Json(ErrorValue("stale element reference", {}), ""),
     Json(ErrorValue("unknown error", {}), ""),
     Json(ErrorValue("no such alert", {}), "")}

AlertLabels == {"Allow", "OK", "Cancel"}

OkResponses(path) ==
    CASE path = "status" ->
            {Json([dict |-> TRUE, d |-> [state |-> "success"]], sid) : sid \in SessionIds \cup {""}}
      [] path = "session" ->
            {Json([dict |-> TRUE, d |-> [capabilities |-> "caps"]], sid) : sid \in SessionIds \cup {""}}
      [] path = "wda/locked" -> {Json(Scalar(b), "") : b \in BOOLEAN}
      [] path = "wda/apps/state" -> {Json(Scalar(x), "s1") : x \in {1, 4}}
      [] path = "wda/alert/buttons" -> {Json(Scalar(bs), "s1") : bs \in SUBSET AlertLabels}
      [] OTHER -> {Json(Scalar("null"), "s1")}

Responses(path) == FailResponses \cup OkResponses(path)

(***************************************************************************)
(* SpecReady: BaseClient.wait_ready and BaseClient.is_ready.  The clock is *)
(* counted in whole seconds; ready.now is the clock at the thread's last   *)
(* step.                                                                   *)
(***************************************************************************)
\* the timeout arguments and the clock values the call starts at
MaxTimeout == 3
MaxStart == 2

\* is_ready: self.http.get("status", timeout=3)
ProbeTimeout == 3

\* time.sleep(1.0)
SleepSeconds == 1

\* how much longer than asked for a sleep can last
MaxOversleep == 1

InitReady ==
    /\ raw = NoRaw
    /\ fres = Return(None)
    /\ url = NoUrl
    /\ ready \in {[pc |-> "call", now |-> n, timeout |-> tm, deadline |-> 0, probes |-> 0,
                   result |-> None] : n \in 0..MaxStart, tm \in 0..MaxTimeout}
    /\ watch2 = None
    /\ session_id = <<"">>
    /\ stack = <<>>
    /\ ret = <<>>
    /\ cnt = <<>>
    /\ call = None
    /\ watch = None

\* deadline = time.time() + timeout
wait_ready_deadline ==
    /\ ready.pc = "call"
    /\ ready' = [ready EXCEPT !.pc = "while", !.deadline = ready.now + ready.timeout]
    /\ UNCHANGED <<raw, fres, url, watch2, session_id, stack, ret, cnt, call, watch>>

\* while time.time() < deadline: ... return False
wait_ready_while ==
    /\ ready.pc = "while"
    /\ ready' = IF ready.now < ready.deadline
                THEN [ready EXCEPT !.pc = "probe"]
                ELSE [ready EXCEPT !.pc = "done", !.result = FALSE]
    /\ UNCHANGED <<raw, fres, url, watch2, session_id, stack, ret, cnt, call, watch>>

\* if self.is_ready(): return True: the status request takes d seconds and
\* is_ready turns every exception into False
is_ready ==
    /\ ready.pc = "probe"
    /\ \E resp \in Responses("status"), d \in 0..ProbeTimeout :
        /\ raw' = resp
        /\ fres' = _fetch(resp)
        /\ ready' = IF fres'.k = "ok"
                    THEN [ready EXCEPT !.pc = "done", !.result = TRUE,
                                       !.now = @ + d, !.probes = @ + 1]
                    ELSE [ready EXCEPT !.pc = "sleep", !.now = @ + d, !.probes = @ + 1]
    /\ UNCHANGED <<url, watch2, session_id, stack, ret, cnt, call, watch>>

\* a wait between two probes that lets no time pass
wait_ready_spin ==
    /\ ready.pc = "sleep"
    /\ ready' = [ready EXCEPT !.pc = "while"]
    /\ UNCHANGED <<raw, fres, url, watch2, session_id, stack, ret, cnt, call, watch>>

\* time.sleep(1.0)
wait_ready_sleep ==
    /\ ready.pc = "sleep"
    /\ \E d \in SleepSeconds..(SleepSeconds + MaxOversleep) :
        ready' = [ready EXCEPT !.pc = "while", !.now = @ + d]
    /\ UNCHANGED <<raw, fres, url, watch2, session_id, stack, ret, cnt, call, watch>>

NextReady ==
    \/ wait_ready_deadline
    \/ wait_ready_while
    \/ is_ready
    \/ wait_ready_sleep

\* the calling thread runs on: a step of wait_ready that can be taken is taken
SpecReady == InitReady /\ [][NextReady]_vars /\ WF_vars(NextReady)

(***************************************************************************)
(* Threads, frames and the bookkeeping of requests.                        *)
(***************************************************************************)
Threads == {"fg", "alert", "alert2"}

NoExc == [cls |-> None]

Frame(fn, pc, self, arg) ==
    [fn |-> fn, pc |-> pc, self |-> self, arg |-> arg, n |-> 1, exc |-> NoExc, loc |-> None]

\* the arguments of one _session_http call
Request(m, path, data) == [m |-> m, path |-> path, data |-> data]

Top(t) == Head(stack[t])

At(t, fn, pc) == stack[t] # <<>> /\ Top(t).fn = fn /\ Top(t).pc = pc

Idle(t) == stack[t] = <<>>

\* the running frame becomes f
Become(t, f) == stack' = [stack EXCEPT ![t] = <<f>> \o Tail(stack[t])]

\* the running frame moves to pc
Goto(t, pc) == Become(t, [Top(t) EXCEPT !.pc = pc])

\* the running frame, changed to f, calls callee
Invoke(t, f, callee) ==
    /\ Len(stack[t]) < MaxDepth
    /\ stack' = [stack EXCEPT ![t] = <<callee, f>> \o Tail(stack[t])]
    /\ ret' = [ret EXCEPT ![t] = Return(None)]

\* the running frame returns or raises
Finish(t, result) ==
    /\ stack' = [stack EXCEPT ![t] = Tail(stack[t])]
    /\ ret' = [ret EXCEPT ![t] = result]

\* The client instances some frame or returned reference still names; the
\* instances created after the last of them are unreachable and are freed.
Live(stk, rt) ==
    {1} \cup UNION {{stk[t][i].self : i \in 1..Len(stk[t])} : t \in Threads}
        \cup {rt[t].v : t \in {u \in Threads : rt[u].k = "client"}}

Max(S) == CHOOSE x \in S : \A y \in S : y <= x

Collect(stk, rt) == session_id' = SubSeq(session_id, 1, Max(Live(stk, rt)))

\* what the callee returned or raised has been dealt with
Handled(t) == ret' = [ret EXCEPT ![t] = Return(None)]

\* cnt[t].own counts the requests of the command the call is about, cnt[t].probe
\* the status probes and cnt[t].create the session-creation POSTs
NoCounts == [own |-> 0, probe |-> 0, create |-> 0]

OwnPaths(op) ==
    CASE op = "status" -> {"status"}
      [] op = "send_keys" -> {"wda/keys"}
      [] op = "app_state" -> {"wda/apps/state"}
      [] op = "tap" -> {"wda/tap", "wda/tap/0"}
      [] op = "close" -> {""}
      [] op = "poll" -> {"alert/accept", "alert/dismiss"}
      [] OTHER -> {}

\* one HTTP request goes out
Issue(t, path) ==
    cnt' = [cnt EXCEPT ![t] =
              [own |-> @.own + (IF path \in OwnPaths(IF t = "fg" THEN call.op ELSE "poll")
                                THEN 1 ELSE 0),
               probe |-> @.probe + (IF path = "status" THEN 1 ELSE 0),
               create |-> @.create + (IF path = "session" THEN 1 ELSE 0)]]

(***************************************************************************)
(* BaseClient.status, under @retry.retry(WDAEmptyResponseError, tries=3).  *)
(***************************************************************************)
status_tries == 3

\* res["value"]['sessionId'] = res.get("sessionId"); return res.value
status_value(r) ==
    [k \in (DOMAIN r.value.d) \cup {"sessionId"} |->
        IF k = "sessionId" THEN Get(r, "sessionId", None) ELSE r.value.d[k]]

\* status_try under a retry decorator that catches every error kind
status_try_any(t) ==
    /\ At(t, "status", "try")
    /\ Issue(t, "status")
    /\ \E resp \in Responses("status") :
        LET res == _fetch(resp) IN
        IF res.k = "raise"
        THEN IF Top(t).n < status_tries
             THEN Become(t, [Top(t) EXCEPT !.n = @ + 1, !.exc = res.v]) /\ UNCHANGED ret
             ELSE Finish(t, res)
        ELSE Finish(t, Return(status_value(res.v)))
    /\ UNCHANGED <<raw, fres, url, ready, watch2, session_id, call, watch>>

status_try(t) ==
    /\ At(t, "status", "try")
    /\ Issue(t, "status")
    /\ \E resp \in Responses("status") :
        LET res == _fetch(resp) IN
        IF res.k = "raise"
        THEN IF isinstance(res.v, "WDAEmptyResponseError") /\ Top(t).n < status_tries
             THEN Become(t, [Top(t) EXCEPT !.n = @ + 1, !.exc = res.v]) /\ UNCHANGED ret
             ELSE Finish(t, res)
        ELSE Finish(t, Return(status_value(res.v)))
    /\ UNCHANGED <<raw, fres, url, ready, watch2, session_id, call, watch>>

(***************************************************************************)
(* BaseClient.session_id (the property getter).                            *)
(***************************************************************************)
\* a getter that forgets a stored id and asks the remote again
session_id_check_reset(t) ==
    /\ At(t, "session_id", "check")
    /\ session_id' = [session_id EXCEPT ![Top(t).self] = ""]
    /\ Invoke(t, [Top(t) EXCEPT !.pc = "probed"],
              Frame("status", "try", Top(t).self, None))
    /\ UNCHANGED <<raw, fres, url, ready, watch2, cnt, call, watch>>

\* if self.__session_id: return self.__session_id
session_id_check(t) ==
    /\ At(t, "session_id", "check")
    /\ IF Truthy(session_id[Top(t).self])
       THEN Finish(t, Return(session_id[Top(t).self]))
       ELSE Invoke(t, [Top(t) EXCEPT !.pc = "probed"],
                   Frame("status", "try", Top(t).self, None))
    /\ UNCHANGED <<raw, fres, url, ready, watch2, session_id, cnt, call, watch>>

\* current_sid = self.status()['sessionId']
session_id_probed(t) ==
    /\ At(t, "session_id", "probed")
    /\ IF ret[t].k = "raise"
       THEN Finish(t, ret[t]) /\ UNCHANGED session_id
       ELSE LET current_sid == ret[t].v["sessionId"] IN
            IF Truthy(current_sid)
            THEN /\ session_id' = [session_id EXCEPT ![Top(t).self] = current_sid]
                 /\ Finish(t, Return(current_sid))
            ELSE /\ Invoke(t, [Top(t) EXCEPT !.pc = "created"],
                           Frame("session", "locked", Top(t).self, None))
                 /\ UNCHANGED session_id
    /\ UNCHANGED <<raw, fres, url, ready, watch2, cnt, call, watch>>

\* return self.session().session_id: session() has returned a client
session_id_created(t) ==
    /\ At(t, "session_id", "created")
    /\ IF ret[t].k = "raise"
       THEN Finish(t, ret[t])
       ELSE Invoke(t, [Top(t) EXCEPT !.pc = "return"],
                   Frame("session_id", "check", ret[t].v, None))
    /\ UNCHANGED <<raw, fres, url, ready, watch2, session_id, cnt, call, watch>>

session_id_return(t) ==
    /\ At(t, "session_id", "return")
    /\ Finish(t, ret[t])
    /\ Collect(stack', ret')
    /\ UNCHANGED <<raw, fres, url, ready, watch2, cnt, call, watch>>

(***************************************************************************)
(* BaseClient.session.                                                     *)
(***************************************************************************)
\* a session() that binds the client it is called on and returns it
NewClient_inplace(t, res) ==
    /\ session_id' = [session_id EXCEPT ![Top(t).self] = Get(res, "sessionId", None)]
    /\ Finish(t, [k |-> "client", v |-> Top(t).self])

\* Client(self.__wda_url, _session_id=res.sessionId)
NewClient(t, res) ==
    /\ Len(session_id) < MaxClients
    /\ session_id' = Append(session_id, Get(res, "sessionId", None))
    /\ Finish(t, [k |-> "client", v |-> Len(session_id) + 1])

\* what the frame of session() knows of the lock: the answer of self.locked()
\* and whether self.unlock() has been called
Lock(locked, unlocked) == [locked |-> locked, unlocked |-> unlocked]

\* a session() that posts without unlocking
session_locked_skip(t) ==
    /\ At(t, "session", "locked")
    /\ Issue(t, "wda/locked")
    /\ \E resp \in Responses("wda/locked") :
        LET res == _fetch(resp) IN
        IF res.k = "raise"
        THEN Finish(t, res)
        ELSE /\ Become(t, [Top(t) EXCEPT !.pc = "post", !.loc = Lock(res.v.value.x, FALSE)])
             /\ UNCHANGED ret
    /\ UNCHANGED <<raw, fres, url, ready, watch2, session_id, call, watch>>

\* if self.locked():
session_locked(t) ==
    /\ At(t, "session", "locked")
    /\ Issue(t, "wda/locked")
    /\ \E resp \in Responses("wda/locked") :
        LET res == _fetch(resp) IN
        IF res.k = "raise"
        THEN Finish(t, res)
        ELSE /\ Become(t, [Top(t) EXCEPT !.pc = IF res.v.value.x THEN "unlock" ELSE "post",
                                         !.loc = Lock(res.v.value.x, FALSE)])
             /\ UNCHANGED ret
    /\ UNCHANGED <<raw, fres, url, ready, watch2, session_id, call, watch>>

\* self.unlock()
session_unlock(t) ==
    /\ At(t, "session", "unlock")
    /\ Issue(t, "wda/unlock")
    /\ \E resp \in Responses("wda/unlock") :
        LET res == _fetch(resp) IN
        IF res.k = "raise"
        THEN Finish(t, res)
        ELSE /\ Become(t, [Top(t) EXCEPT !.pc = "post", !.loc = Lock(TRUE, TRUE)])
             /\ UNCHANGED ret
    /\ UNCHANGED <<raw, fres, url, ready, watch2, session_id, call, watch>>

\* res = self.http.post('session', payload)
\* except WDAEmptyResponseError: res = self.session().app_state(bundle_id)
session_post(t) ==
    /\ At(t, "session", "post")
    /\ Issue(t, "session")
    /\ \E resp \in Responses("session") :
        LET res == _fetch(resp) IN
        IF res.k = "raise"
        THEN IF isinstance(res.v, "WDAEmptyResponseError")
             THEN /\ Invoke(t, [Top(t) EXCEPT !.pc = "fallback", !.exc = res.v, !.loc = None],
                            Frame("session", "locked", Top(t).self, None))
                  /\ UNCHANGED session_id
             ELSE Finish(t, res) /\ UNCHANGED session_id
        ELSE NewClient(t, res.v)
    /\ UNCHANGED <<raw, fres, url, ready, watch2, call, watch>>

\* ... .app_state(bundle_id), on the client self.session() returned
session_fallback(t) ==
    /\ At(t, "session", "fallback")
    /\ IF ret[t].k = "raise"
       THEN Finish(t, ret[t])
       ELSE Invoke(t, [Top(t) EXCEPT !.pc = "state"],
                   Frame("_fetch", "url", ret[t].v,
                         Request("POST", "wda/apps/state", Top(t).arg)))
    /\ UNCHANGED <<raw, fres, url, ready, watch2, session_id, cnt, call, watch>>

\* if res.value != 4: raise
session_state(t) ==
    /\ At(t, "session", "state")
    /\ IF ret[t].k = "raise"
       THEN Finish(t, ret[t]) /\ UNCHANGED session_id
       ELSE IF ret[t].v.value.x # 4
            THEN Finish(t, Raise(Top(t).exc)) /\ UNCHANGED session_id
            ELSE NewClient(t, ret[t].v)
    /\ UNCHANGED <<raw, fres, url, ready, watch2, cnt, call, watch>>

(***************************************************************************)
(* BaseClient._fetch with with_session=True (self._session_http).          *)
(***************************************************************************)
\* url = urljoin(self.__wda_url, f"session/{self.session_id}/")
fetch_url(t) ==
    /\ At(t, "_fetch", "url")
    /\ Invoke(t, [Top(t) EXCEPT !.pc = "send"],
              Frame("session_id", "check", Top(t).self, None))
    /\ UNCHANGED <<raw, fres, url, ready, watch2, session_id, cnt, call, watch>>

\* fetch_send of a client that forgets its id when the remote rejects it
fetch_send_heal(t) ==
    /\ At(t, "_fetch", "send")
    /\ IF ret[t].k = "raise"
       THEN Finish(t, ret[t]) /\ UNCHANGED <<cnt, session_id>>
       ELSE /\ Issue(t, Top(t).arg.path)
            /\ \E resp \in Responses(Top(t).arg.path) :
                LET res == _fetch(resp) IN
                /\ Finish(t, res)
                /\ session_id' =
                     IF /\ res.k = "raise"
                        /\ res.v.cls \in {"WDAInvalidSessionIdError", "WDAPossiblyCrashedError"}
                     THEN [session_id EXCEPT ![Top(t).self] = ""]
                     ELSE session_id
    /\ UNCHANGED <<raw, fres, url, ready, watch2, call, watch>>

\* the request goes to session/<the id the getter returned>/<urlpath>
fetch_send(t) ==
    /\ At(t, "_fetch", "send")
    /\ IF ret[t].k = "raise"
       THEN Finish(t, ret[t]) /\ UNCHANGED cnt
       ELSE /\ Issue(t, Top(t).arg.path)
            /\ \E resp \in Responses(Top(t).arg.path) : Finish(t, _fetch(resp))
    /\ Collect(stack', ret')
    /\ UNCHANGED <<raw, fres, url, ready, watch2, call, watch>>

(***************************************************************************)
(* BaseClient.send_keys, under @retry.retry(WDAKeyboardNotPresentError,    *)
(* tries=3).                                                               *)
(***************************************************************************)
send_keys_tries == 3

send_keys_try(t) ==
    /\ At(t, "send_keys", "try")
    /\ Invoke(t, [Top(t) EXCEPT !.pc = "got"],
              Frame("_fetch", "url", Top(t).self, Request("POST", "wda/keys", "abc")))
    /\ UNCHANGED <<raw, fres, url, ready, watch2, session_id, cnt, call, watch>>

\* send_keys_got under a retry decorator that allows one attempt more
send_keys_got_more(t) ==
    /\ At(t, "send_keys", "got")
    /\ IF /\ ret[t].k = "raise"
          /\ isinstance(ret[t].v, "WDAKeyboardNotPresentError")
          /\ Top(t).n <= send_keys_tries
       THEN Become(t, [Top(t) EXCEPT !.n = @ + 1, !.pc = "try", !.exc = ret[t].v]) /\ Handled(t)
       ELSE Finish(t, ret[t])
    /\ UNCHANGED <<raw, fres, url, ready, watch2, session_id, cnt, call, watch>>

send_keys_got(t) ==
    /\ At(t, "send_keys", "got")
    /\ IF /\ ret[t].k = "raise"
          /\ isinstance(ret[t].v, "WDAKeyboardNotPresentError")
          /\ Top(t).n < send_keys_tries
       THEN Become(t, [Top(t) EXCEPT !.n = @ + 1, !.pc = "try", !.exc = ret[t].v]) /\ Handled(t)
       ELSE Finish(t, ret[t])
    /\ UNCHANGED <<raw, fres, url, ready, watch2, session_id, cnt, call, watch>>

(***************************************************************************)
(* BaseClient.tap.                                                         *)
(***************************************************************************)
\* return self._session_http.post('wda/tap', dict(x=x, y=y))
tap_try(t) ==
    /\ At(t, "tap", "try")
    /\ Invoke(t, [Top(t) EXCEPT !.pc = "got"],
              Frame("_fetch", "url", Top(t).self, Request("POST", "wda/tap", "xy")))
    /\ UNCHANGED <<raw, fres, url, ready, watch2, session_id, cnt, call, watch>>

\* except: return self._session_http.post('wda/tap/0', dict(x=x, y=y))
tap_got(t) ==
    /\ At(t, "tap", "got")
    /\ IF ret[t].k = "raise"
       THEN Invoke(t, [Top(t) EXCEPT !.pc = "fallback", !.exc = ret[t].v],
                   Frame("_fetch", "url", Top(t).self, Request("POST", "wda/tap/0", "xy")))
       ELSE Finish(t, ret[t])
    /\ UNCHANGED <<raw, fres, url, ready, watch2, session_id, cnt, call, watch>>

\* the request in the except clause has returned or raised
tap_fallback(t) ==
    /\ At(t, "tap", "fallback")
    /\ Finish(t, ret[t])
    /\ UNCHANGED <<raw, fres, url, ready, watch2, session_id, cnt, call, watch>>

(***************************************************************************)
(* BaseClient.close.                                                       *)
(***************************************************************************)
\* return self._session_http.delete('')
close_try(t) ==
    /\ At(t, "close", "try")
    /\ Invoke(t, [Top(t) EXCEPT !.pc = "got"],
              Frame("_fetch", "url", Top(t).self, Request("DELETE", "", None)))
    /\ UNCHANGED <<raw, fres, url, ready, watch2, session_id, cnt, call, watch>>

\* a close() that forgets the id of the session it has closed
close_got_forget(t) ==
    /\ At(t, "close", "got")
    /\ IF ret[t].k = "raise" /\ isinstance(ret[t].v, "WDARequestError")
       THEN IF ~(\/ isinstance(ret[t].v, "WDAInvalidSessionIdError")
                 \/ isinstance(ret[t].v, "WDAPossiblyCrashedError"))
            THEN Finish(t, ret[t])
            ELSE Finish(t, Return(None))
       ELSE Finish(t, ret[t])
    /\ session_id' = [session_id EXCEPT ![Top(t).self] = ""]
    /\ UNCHANGED <<raw, fres, url, ready, watch2, cnt, call, watch>>

\* close_got with an except clause that lets no WDARequestError through
close_got_all(t) ==
    /\ At(t, "close", "got")
    /\ IF ret[t].k = "raise" /\ isinstance(ret[t].v, "WDARequestError")
       THEN Finish(t, Return(None))
       ELSE Finish(t, ret[t])
    /\ UNCHANGED <<raw, fres, url, ready, watch2, session_id, cnt, call, watch>>

\* except WDARequestError as e:
\*     if not isinstance(e, (WDAInvalidSessionIdError, WDAPossiblyCrashedError)): raise
close_got(t) ==
    /\ At(t, "close", "got")
    /\ IF ret[t].k = "raise" /\ isinstance(ret[t].v, "WDARequestError")
       THEN IF ~(\/ isinstance(ret[t].v, "WDAInvalidSessionIdError")
                 \/ isinstance(ret[t].v, "WDAPossiblyCrashedError"))
            THEN Finish(t, ret[t])
            ELSE Finish(t, Return(None))
       ELSE Finish(t, ret[t])
    /\ UNCHANGED <<raw, fres, url, ready, watch2, session_id, cnt, call, watch>>

(***************************************************************************)
(* The foreground thread: the caller's calls on its client instances.      *)
(***************************************************************************)
FgOps == {"session_id", "status", "send_keys", "session", "app_state", "tap", "close"}

\* the operations that go through self._session_http
SessionOps == {"send_keys", "app_state", "tap", "close"}

Entry(op, c, bundle_id) ==
    CASE op = "session_id" -> Frame("session_id", "check", c, None)
      [] op = "status" -> Frame("status", "try", c, None)
      [] op = "send_keys" -> Frame("send_keys", "try", c, None)
      [] op = "session" -> Frame("session", "locked", c, bundle_id)
      [] op = "tap" -> Frame("tap", "try", c, None)
      [] op = "close" -> Frame("close", "try", c, None)
      [] op = "app_state" ->
            Frame("_fetch", "url", c, Request("POST", "wda/apps/state", "com.app"))

\* The caller makes its next call on one of the client instances it holds.  The
\* instances it does not use again are dropped, and the one it goes on with is
\* numbered 1: instances share no state, so nothing is lost.
Call ==
    /\ Idle("fg")
    /\ watch.state = "none"
    /\ \E op \in FgOps, c \in 1..Len(session_id), bundle_id \in {None, "com.app"} :
        /\ (op # "session") => bundle_id = None
        /\ session_id' = <<session_id[c]>>
        /\ call' = [op |-> op, self |-> 1, was |-> session_id[c]]
        /\ stack' = [stack EXCEPT !["fg"] = <<Entry(op, 1, bundle_id)>>]
    /\ ret' = [ret EXCEPT !["fg"] = Return(None)]
    /\ cnt' = [cnt EXCEPT !["fg"] = NoCounts]
    /\ UNCHANGED <<raw, fres, url, ready, watch2, watch>>

(***************************************************************************)
(* Alert.watch_and_click: the scope, its event and the watcher thread.     *)
(***************************************************************************)
\* Alert.DEFAULT_ACCEPT_BUTTONS; the Chinese labels are written in pinyin
DEFAULT_ACCEPT_BUTTONS ==
    <<"ShiYongAppShiYunXu", "WuXianJuYuWangYuFengWoWangLuo", "Hao", "ShaoHou",
      "ShaoHouTiXing", "QueDing", "YunXu", "YiHou", "DaKai", "LuPing",
      "Allow", "OK", "YES", "Yes", "Later", "Close">>

\* the buttons argument: None, or a list
ButtonsArgs ==
    {[none |-> TRUE, list |-> <<>>]}
    \cup {[none |-> FALSE, list |-> l] : l \in {<<>>, <<"OK", "Allow">>, <<"Cancel", "OK">>}}

\* the buttons arguments of the second scope
ButtonsArgs2 == {[none |-> TRUE, list |-> <<>>], [none |-> FALSE, list |-> <<"Cancel", "OK">>]}

NoWatch == [state |-> "none", event |-> FALSE, arg |-> [none |-> TRUE, list |-> <<>>],
            buttons |-> <<>>]

NoPoll == [polled |-> FALSE, btn_name |-> None]

\* the scope whose watcher thread t is: its event and buttons are the locals
\* of the watch_and_click call that started t
Scope(t) == IF t = "alert2" THEN watch2 ELSE watch

\* the with statement is entered: the thread is started, the block begins
watch_and_click ==
    /\ watch.state = "none"
    /\ Idle("fg")
    /\ \E arg \in ButtonsArgs :
        watch' = [state |-> "open", event |-> FALSE, arg |-> arg,
                  buttons |-> IF arg.none \/ arg.list = <<>>
                              THEN DEFAULT_ACCEPT_BUTTONS ELSE arg.list]
    /\ stack' = [stack EXCEPT !["alert"] = <<Frame("_inner", "loop", 1, NoPoll)>>]
    /\ UNCHANGED <<raw, fres, url, ready, watch2, session_id, ret, cnt, call>>

\* a call the block makes on the client the alert belongs to
BlockOps == {"app_state"}

block_call ==
    /\ watch.state = "open"
    /\ Idle("fg")
    /\ \E op \in BlockOps :
        /\ call' = [op |-> op, self |-> 1, was |-> session_id[1]]
        /\ stack' = [stack EXCEPT !["fg"] = <<Entry(op, 1, None)>>]
    /\ ret' = [ret EXCEPT !["fg"] = Return(None)]
    /\ cnt' = [cnt EXCEPT !["fg"] = NoCounts]
    /\ UNCHANGED <<raw, fres, url, ready, watch2, session_id, watch>>

\* the block returns: the generator resumes after the yield and sets the event
block_exit ==
    /\ watch.state = "open"
    /\ Idle("fg")
    /\ watch' = [watch EXCEPT !.state = "exited", !.event = TRUE]
    /\ UNCHANGED <<raw, fres, url, ready, watch2, session_id, stack, ret, cnt, call>>

\* the block raises: the exception is thrown into the generator at the yield,
\* which has no try/finally around it
block_raise ==
    /\ watch.state = "open"
    /\ Idle("fg")
    /\ watch' = [watch EXCEPT !.state = "raised"]
    /\ UNCHANGED <<raw, fres, url, ready, watch2, session_id, stack, ret, cnt, call>>

\* a second with statement is entered, inside the block of the first or
\* after it: the call has an event and a thread of its own
watch_and_click2 ==
    /\ watch.state \in {"open", "exited"}
    /\ watch2.state = "none"
    /\ Idle("fg")
    /\ \E arg \in ButtonsArgs2 :
        watch2' = [state |-> "open", event |-> FALSE, arg |-> arg,
                   buttons |-> IF arg.none \/ arg.list = <<>>
                               THEN DEFAULT_ACCEPT_BUTTONS ELSE arg.list]
    /\ stack' = [stack EXCEPT !["alert2"] = <<Frame("_inner", "loop", 1, NoPoll)>>]
    /\ UNCHANGED <<raw, fres, url, ready, session_id, ret, cnt, call, watch>>

\* the block of the second with statement returns
block_exit2 ==
    /\ watch2.state = "open"
    /\ Idle("fg")
    /\ watch2' = [watch2 EXCEPT !.state = "exited", !.event = TRUE]
    /\ UNCHANGED <<raw, fres, url, ready, session_id, stack, ret, cnt, call, watch>>

\* an _inner that looks at one event shared by all the scopes
inner_loop_shared(t) ==
    /\ At(t, "_inner", "loop")
    /\ IF watch.event \/ watch2.event
       THEN Finish(t, Return(None)) /\ UNCHANGED cnt
       ELSE /\ Invoke(t, [Top(t) EXCEPT !.pc = "buttons", !.arg = NoPoll],
                      Frame("_fetch", "url", Top(t).self,
                            Request("GET", "wda/alert/buttons", None)))
            /\ cnt' = [cnt EXCEPT ![t] = NoCounts]
    /\ UNCHANGED <<raw, fres, url, ready, watch2, session_id, call, watch>>

\* while not event.is_set(): ... alert_buttons = self.buttons()
inner_loop(t) ==
    /\ At(t, "_inner", "loop")
    /\ IF Scope(t).event
       THEN Finish(t, Return(None)) /\ UNCHANGED cnt
       ELSE /\ Invoke(t, [Top(t) EXCEPT !.pc = "buttons", !.arg = NoPoll],
                      Frame("_fetch", "url", Top(t).self,
                            Request("GET", "wda/alert/buttons", None)))
            /\ cnt' = [cnt EXCEPT ![t] = NoCounts]
    /\ UNCHANGED <<raw, fres, url, ready, watch2, session_id, call, watch>>

\* the last name of buttons, from i on, that is among alert_buttons
last_in(buttons, i, alert_buttons) ==
    LET hits == {j \in i..Len(buttons) : buttons[j] \in alert_buttons}
    IN  IF hits = {} THEN 0 ELSE Max(hits)

\* the first name of buttons that is among alert_buttons, if any
RECURSIVE first_in(_, _, _)
first_in(buttons, i, alert_buttons) ==
    IF i > Len(buttons) THEN 0
    ELSE IF buttons[i] \in alert_buttons THEN i
    ELSE first_in(buttons, i + 1, alert_buttons)

\* an except clause that catches WDARequestError itself but none of its subclasses
inner_except_exact(t) ==
    IF ret[t].v.cls = "WDARequestError"
    THEN Goto(t, "sleep") /\ UNCHANGED ret
    ELSE Finish(t, ret[t])

\* except exceptions.WDARequestError: pass
inner_except(t) ==
    IF isinstance(ret[t].v, "WDARequestError")
    THEN Goto(t, "sleep") /\ UNCHANGED ret
    ELSE Finish(t, ret[t])

\* for btn_name in buttons: if btn_name in alert_buttons: self.click(btn_name); break
inner_buttons(t) ==
    /\ At(t, "_inner", "buttons")
    /\ IF ret[t].k = "raise"
       THEN inner_except(t)
       ELSE LET alert_buttons == ret[t].v.value.x
                i == first_in(Scope(t).buttons, 1, alert_buttons)
            IN  IF i = 0
                THEN /\ Become(t, [Top(t) EXCEPT !.pc = "sleep",
                                     !.arg = [polled |-> TRUE, btn_name |-> None]])
                     /\ Handled(t)
                ELSE Invoke(t, [Top(t) EXCEPT !.pc = "click",
                                  !.arg = [polled |-> TRUE, btn_name |-> Scope(t).buttons[i]]],
                            Frame("_fetch", "url", Top(t).self,
                                  Request("POST", "alert/accept", Scope(t).buttons[i])))
    /\ UNCHANGED <<raw, fres, url, ready, watch2, session_id, cnt, call, watch>>

\* self.click(btn_name) has returned or raised
inner_click(t) ==
    /\ At(t, "_inner", "click")
    /\ IF ret[t].k = "raise"
       THEN inner_except(t)
       ELSE Goto(t, "sleep") /\ Handled(t)
    /\ UNCHANGED <<raw, fres, url, ready, watch2, session_id, cnt, call, watch>>

\* time.sleep(interval)
inner_sleep(t) ==
    /\ At(t, "_inner", "sleep")
    /\ Goto(t, "loop")
    /\ UNCHANGED <<raw, fres, url, ready, watch2, session_id, ret, cnt, call, watch>>

(***************************************************************************)
(* Spec: the calls of the foreground thread.                               *)
(***************************************************************************)
NoCall == [op |-> None, self |-> 0, was |-> ""]

Init ==
    /\ raw = NoRaw
    /\ fres = Return(None)
    /\ url = NoUrl
    /\ ready = None
    /\ watch2 = NoWatch
    /\ session_id \in {<<sid>> : sid \in SessionIds \cup {""}}
    /\ stack = [t \in Threads |-> <<>>]
    /\ ret = [t \in Threads |-> Return(None)]
    /\ cnt = [t \in Threads |-> NoCounts]
    /\ call = NoCall
    /\ watch = NoWatch

Discover(t) ==
    \/ status_try(t)
    \/ session_id_check(t)
    \/ session_id_probed(t)
    \/ session_id_created(t)
    \/ session_id_return(t)
    \/ session_locked(t)
    \/ session_unlock(t)
    \/ session_post(t)
    \/ session_fallback(t)
    \/ session_state(t)
    \/ fetch_url(t)
    \/ fetch_send(t)

Next ==
    \/ Call
    \/ Discover("fg")
    \/ send_keys_try("fg")
    \/ send_keys_got("fg")
    \/ tap_try("fg")
    \/ tap_got("fg")
    \/ tap_fallback("fg")
    \/ close_try("fg")
    \/ close_got("fg")

Spec == Init /\ [][Next]_vars

(***************************************************************************)
(* SpecWatch: a block under watch_and_click and the watcher thread, on a   *)
(* client whose session id is known.                                       *)
(***************************************************************************)
InitWatch == Init /\ Truthy(session_id[1])

SessionHttp(t) ==
    \/ fetch_url(t)
    \/ session_id_check(t)
    \/ fetch_send(t)

Watcher ==
    \/ inner_loop("alert")
    \/ inner_buttons("alert")
    \/ inner_click("alert")
    \/ inner_sleep("alert")

NextWatch ==
    \/ watch_and_click
    \/ block_call
    \/ block_exit
    \/ block_raise
    \/ Watcher
    \/ \E t \in Threads : SessionHttp(t)

SpecWatch == InitWatch /\ [][NextWatch]_vars

(***************************************************************************)
(* SpecScopes: two watch_and_click scopes, the second nested in the first  *)
(* or opened after it, and their two watcher threads.                      *)
(***************************************************************************)
Watchers == {"alert", "alert2"}

WatcherOf(t) ==
    \/ inner_loop(t)
    \/ inner_buttons(t)
    \/ inner_click(t)
    \/ inner_sleep(t)

NextScopes ==
    \/ watch_and_click
    \/ watch_and_click2
    \/ block_exit
    \/ block_exit2
    \/ \E t \in Watchers : WatcherOf(t)
    \/ \E t \in Watchers : SessionHttp(t)

SpecScopes == InitWatch /\ [][NextScopes]_vars

(***************************************************************************)
(* Properties.                                                             *)
(***************************************************************************)
Min(S) == CHOOSE x \in S : \A y \in S : x <= y

\* the foreground thread takes a step
FgStep == stack'["fg"] # stack["fg"]

\* the watcher thread takes a step
AlertStep == stack'["alert"] # stack["alert"]

\* thread t sends the request of its running _fetch frame in this step
Sends(t) == At(t, "_fetch", "send") /\ ret[t].k = "ok" /\ stack'[t] # stack[t]

\* the order in which the kinds are to be tried
KindOrder == <<"WDAInvalidSessionIdError", "WDAPossiblyCrashedError",
               "WDAKeyboardNotPresentError", "WDAStaleElementReferenceError",
               "WDAUnknownError">>

\* the raw response decodes to an envelope whose value is a mapping with a
\* truthy error field
Classifiable ==
    /\ ~raw.exc
    /\ raw.status_code # 502
    /\ raw.text = "json"
    /\ raw.json.value.dict
    /\ Truthy(Get(raw.json.value.d, "error", None))

\* C1: when the decoded value is a mapping with a truthy error field, _fetch
\* raises the first kind of the fixed order InvalidSessionId, PossiblyCrashed,
\* KeyboardNotPresent, StaleElementReference, Unknown whose predicate matches
\* the value, the generic WDARequestError when none matches, and the value the
\* error carries has no traceback field.
C1_FirstMatchingKind ==
    Classifiable =>
        LET hits == {i \in 1..Len(KindOrder) : check(KindOrder[i], raw.json.value.d)}
        IN  /\ fres.k = "raise"
            /\ fres.v.cls = IF hits = {} THEN "WDARequestError" ELSE KindOrder[Min(hits)]
            /\ "traceback" \notin DOMAIN fres.v.value

\* a value with a traceback that matches two predicates was raised as the
\* earlier kind
C1_Witness ==
    /\ Classifiable
    /\ WDAInvalidSessionIdError_check(raw.json.value.d)
    /\ WDAPossiblyCrashedError_check(raw.json.value.d)
    /\ "traceback" \in DOMAIN raw.json.value.d
    /\ fres.k = "raise"
    /\ fres.v.cls = "WDAInvalidSessionIdError"

\* the foreground call is a read of session_id on a client that had no id
UnboundRead == call.op = "session_id" /\ ~Truthy(call.was)

\* the foreground call has returned a value
Returned == Idle("fg") /\ call.op # None /\ ret["fg"].k = "ok"

\* C2: a read of session_id on an unbound client issues no session-creation
\* POST and binds the client when the probe reports an id, and issues exactly
\* one session-creation POST when the probe reports none.
C2_OneCreation ==
    UnboundRead =>
        /\ cnt["fg"].create <= 1
        /\ (Returned /\ cnt["fg"].create = 0) => session_id[1] = ret["fg"].v
        /\ (Returned /\ session_id[1] # ret["fg"].v) => cnt["fg"].create = 1

\* C3: once a read of session_id has returned an id, the client holds that id,
\* so that later session-scoped calls use it without probing or creating.
C3_BoundAfterRead ==
    (call.op = "session_id" /\ Returned) => session_id[1] = ret["fg"].v

StaleKinds == {"WDAInvalidSessionIdError", "WDAPossiblyCrashedError"}

\* the foreground call is a session-scoped call on a client that had an id
BoundCall == call.op \in SessionOps /\ Truthy(call.was)

\* a session-scoped request of a client that holds an id goes to that id; when
\* it raises a stale kind, the id stays and no probe or creation is counted
C4_Send ==
    (Sends("fg") /\ Truthy(session_id[Top("fg").self])) =>
        LET c == Top("fg").self IN
        /\ ret["fg"].v = session_id[c]
        /\ (ret'["fg"].k = "raise" /\ ret'["fg"].v.cls \in StaleKinds) =>
              /\ c \in DOMAIN session_id' => session_id'[c] = session_id[c]
              /\ cnt'["fg"].probe = cnt["fg"].probe
              /\ cnt'["fg"].create = cnt["fg"].create

\* a session-scoped call on a bound client that ended with a stale kind left
\* the id as it was and issued no probe and no creation
C4_Ended ==
    (BoundCall /\ Idle("fg") /\ ret["fg"].k = "raise" /\ ret["fg"].v.cls \in StaleKinds) =>
        /\ session_id = <<call.was>>
        /\ cnt["fg"].probe = 0
        /\ cnt["fg"].create = 0

\* a session-scoped call on a bound client sends to the id the client had
C4_Targets ==
    (BoundCall /\ At("fg", "_fetch", "send") /\ ret["fg"].k = "ok") => ret["fg"].v = call.was

\* C4: a session-scoped call on a bound client that raises InvalidSessionId or
\* PossiblyCrashed issues no status probe and no session-creation POST, leaves
\* the session id unchanged, and the next session-scoped call targets that id.
C4_NoAutoHeal == [](C4_Ended /\ C4_Targets) /\ [][C4_Send]_vars

\* a session-scoped call on a bound client has ended with a stale kind
C4_Witness ==
    /\ BoundCall
    /\ Idle("fg")
    /\ ret["fg"].k = "raise"
    /\ ret["fg"].v.cls = "WDAInvalidSessionIdError"
    /\ session_id[1] = call.was

\* C5: once the watch_and_click scope has exited, the watcher thread sends no
\* further request, neither a buttons query nor a click.
C5_QuietAfterExit == [][watch.state = "exited" => ~Sends("alert")]_vars

\* C6: whenever the block under watch_and_click has ended, by returning or by
\* raising, the stop signal is set (so that the watcher thread finds it set at
\* its next check and ends).
C6_StopSignalSet == watch.state \in {"exited", "raised"} => watch.event

\* the allow-list of the scope: the caller's list, the built-in one when the
\* caller gave none or an empty one
AllowList ==
    IF watch.arg.none \/ watch.arg.list = <<>> THEN DEFAULT_ACCEPT_BUTTONS ELSE watch.arg.list

\* the buttons query of a poll has returned labels: the poll goes on to click
\* the first label of the allow-list that is among them, or to sleep when no
\* label of the allow-list is
C7_Choice ==
    (At("alert", "_inner", "buttons") /\ ret["alert"].k = "ok" /\ AlertStep) =>
        LET labels == ret["alert"].v.value.x
            hits == {i \in 1..Len(AllowList) : AllowList[i] \in labels}
            after == Head(stack'["alert"])
        IN  IF hits = {}
            THEN after.fn = "_inner" /\ after.pc = "sleep" /\ after.arg.btn_name = None
            ELSE /\ after = Frame("_fetch", "url", 1,
                                  Request("POST", "alert/accept", AllowList[Min(hits)]))
                 /\ Len(stack'["alert"]) = 2
                 /\ stack'["alert"][2].arg.btn_name = AllowList[Min(hits)]

\* the requests of a poll: the buttons query and at most one click, which
\* names the label chosen; a poll that chose no label has sent no click
C7_Requests ==
    /\ cnt["alert"].own <= 1
    /\ \A i \in 1..Len(stack["alert"]) :
          LET f == stack["alert"][i] IN
          f.fn = "_fetch" =>
             \/ f.arg.path = "wda/alert/buttons" /\ cnt["alert"].own = 0
             \/ /\ f.arg.path = "alert/accept"
                /\ f.arg.data = stack["alert"][Len(stack["alert"])].arg.btn_name
                /\ f.arg.data # None
    /\ (At("alert", "_inner", "sleep") /\ Top("alert").arg.btn_name = None) =>
          cnt["alert"].own = 0

\* C7: on each poll the watcher issues at most one click; when a label of the
\* allow-list (the caller's, or the default one when none or an empty one is
\* given) is among the dialog's labels it clicks the first such label in
\* allow-list order, and when none is it sends no click, accept or dismiss.
C7_OneClickPerPoll == []C7_Requests /\ [][C7_Choice]_vars

\* a poll under the default list has clicked Allow and is asleep
C7_Witness ==
    /\ At("alert", "_inner", "sleep")
    /\ watch.arg.none
    /\ Top("alert").arg.btn_name = "Allow"
    /\ cnt["alert"].own = 1
    /\ ret["alert"].k = "ok"

ClassifiedKinds == {"WDARequestError", "WDAInvalidSessionIdError",
                    "WDAPossiblyCrashedError", "WDAKeyboardNotPresentError",
                    "WDAStaleElementReferenceError", "WDAUnknownError"}

\* the watcher's frame after the step
AlertAfter == Head(stack'["alert"])

\* the step of the watcher at each point of its loop
C8_Step ==
    /\ (/\ At("alert", "_inner", "buttons") \/ At("alert", "_inner", "click")
        /\ ret["alert"].k = "raise"
        /\ ret["alert"].v.cls \in ClassifiedKinds
        /\ AlertStep) =>
          /\ stack'["alert"] # <<>>
          /\ AlertAfter.fn = "_inner" /\ AlertAfter.pc = "sleep"
          /\ stack'["fg"] = stack["fg"] /\ ret'["fg"] = ret["fg"]
    /\ (At("alert", "_inner", "sleep") /\ AlertStep) =>
          /\ stack'["alert"] # <<>>
          /\ AlertAfter.fn = "_inner" /\ AlertAfter.pc = "loop"
    /\ (At("alert", "_inner", "loop") /\ ~watch.event /\ AlertStep) =>
          /\ Len(stack'["alert"]) = 2
          /\ AlertAfter.fn = "_fetch" /\ AlertAfter.arg.path = "wda/alert/buttons"

\* C8: a classified remote error raised by the buttons query or by the click of
\* a poll does not reach the caller and does not end the watcher: the watcher
\* sleeps and, the stop signal unset, polls again.
C8_ErrorsSwallowed == [][C8_Step]_vars

\* a click has raised a classified error and the watcher is back at the head of
\* its loop, the stop signal unset
C8_Witness ==
    /\ At("alert", "_inner", "loop")
    /\ ~watch.event
    /\ Top("alert").arg.btn_name # None
    /\ ret["alert"].k = "raise"
    /\ ret["alert"].v.cls = "WDAStaleElementReferenceError"

\* the attempts of send_keys and the requests they have sent
C9_Attempts ==
    call.op = "send_keys" =>
        /\ cnt["fg"].own <= 3
        /\ \A i \in 1..Len(stack["fg"]) :
              LET f == stack["fg"][i] IN
              f.fn = "send_keys" =>
                 /\ f.n <= 3
                 /\ f.n > 1 => f.exc.cls = "WDAKeyboardNotPresentError"
                 /\ (Truthy(call.was) /\ i = 1) =>
                       cnt["fg"].own = (IF f.pc = "got" THEN f.n ELSE f.n - 1)
        /\ (Idle("fg") /\ ret["fg"].k = "ok") => cnt["fg"].own >= 1
        /\ (/\ Idle("fg") /\ Truthy(call.was) /\ ret["fg"].k = "raise"
            /\ ret["fg"].v.cls = "WDAKeyboardNotPresentError") => cnt["fg"].own = 3

\* what send_keys does with the outcome of an attempt
C9_Outcome ==
    (At("fg", "send_keys", "got") /\ FgStep) =>
        IF /\ ret["fg"].k = "raise"
           /\ ret["fg"].v.cls = "WDAKeyboardNotPresentError"
           /\ Top("fg").n < 3
        THEN /\ stack'["fg"] # <<>>
             /\ Head(stack'["fg"]).pc = "try"
             /\ Head(stack'["fg"]).n = Top("fg").n + 1
        ELSE stack'["fg"] = <<>> /\ ret'["fg"] = ret["fg"]

\* C9: send_keys makes at most 3 attempts of its request; when every attempt is
\* answered KeyboardNotPresent it raises that error after exactly 3 attempts; a
\* successful attempt ends it with that result; another error kind propagates
\* from the attempt it occurs on with no further attempt.
C9_SendKeysRetry == []C9_Attempts /\ [][C9_Outcome]_vars

\* send_keys on a bound client has raised KeyboardNotPresent after 3 requests
C9_Witness ==
    /\ call.op = "send_keys"
    /\ Truthy(call.was)
    /\ Idle("fg")
    /\ ret["fg"].k = "raise"
    /\ ret["fg"].v.cls = "WDAKeyboardNotPresentError"
    /\ cnt["fg"].own = 3

\* C10: status() sends at most 3 probes and probes again only after an
\* EmptyResponse: it returns the value of the first probe that succeeds, raises
\* EmptyResponse when all 3 probes fail with it, and lets any other error kind
\* propagate from the probe it occurs on.
C10_StatusRetry ==
    /\ \A i \in 1..Len(stack["fg"]) :
          LET f == stack["fg"][i] IN
          f.fn = "status" =>
             /\ f.n <= 3
             /\ f.n > 1 => f.exc.cls = "WDAEmptyResponseError"
    /\ call.op = "status" =>
          /\ cnt["fg"].own <= 3
          /\ ~Idle("fg") => cnt["fg"].own = Top("fg").n - 1
          /\ Idle("fg") => cnt["fg"].own >= 1
          /\ (Idle("fg") /\ ret["fg"].k = "ok") => "sessionId" \in DOMAIN ret["fg"].v
          /\ (Idle("fg") /\ ret["fg"].k = "raise"
                /\ ret["fg"].v.cls = "WDAEmptyResponseError") => cnt["fg"].own = 3

\* status() has returned a value from its third probe
C10_Witness ==
    /\ call.op = "status"
    /\ Idle("fg")
    /\ ret["fg"].k = "ok"
    /\ cnt["fg"].own = 3

\* the operations that have a retry of their own
RetriedOps == {"status", "send_keys"}

\* C11: an operation other than status, app_current and send_keys sends its
\* command request at most once per call: once the request has failed, no
\* second one follows (one tap() call, at most one tap request).
C11_NoSecondRequest == (call.op \notin RetriedOps) => cnt["fg"].own <= 1

\* C12: apart from close() (and the watcher's poll, and session() with its
\* run-state fallback), an operation that has caught the error of a request it
\* issued does not return normally: it ends by raising.
C12_ErrorsReachCaller ==
    [][(/\ ~Idle("fg")
        /\ Top("fg").fn \notin {"close", "status", "send_keys", "session"}
        /\ Top("fg").exc # NoExc
        /\ Len(stack'["fg"]) < Len(stack["fg"]))
       => ret'["fg"].k = "raise"]_vars

\* close() sends at most one request, a DELETE to the session-scoped root, and
\* on a client that holds an id it has sent exactly one when it ends
C13_OneDelete ==
    /\ call.op = "close" =>
          /\ cnt["fg"].own <= 1
          /\ (Idle("fg") /\ Truthy(call.was)) => cnt["fg"].own = 1
    /\ \A i \in 1..Len(stack["fg"]) :
          (stack["fg"][i].fn = "close" /\ i > 1) =>
              stack["fg"][i - 1] \in
                  {Frame("_fetch", pc, stack["fg"][i].self, Request("DELETE", "", None)) :
                      pc \in {"url", "send"}}

\* what close() does with the outcome of its request
C13_Outcome ==
    (At("fg", "close", "got") /\ FgStep) =>
        /\ stack'["fg"] = Tail(stack["fg"])
        /\ IF ret["fg"].k = "raise" /\ ret["fg"].v.cls \in StaleKinds
           THEN ret'["fg"].k = "ok"
           ELSE /\ ret'["fg"].k = ret["fg"].k
                /\ ret["fg"].k = "raise" => ret'["fg"].v = ret["fg"].v

\* C13: close() issues one DELETE to the session-scoped root; it returns
\* normally when that request raises InvalidSessionId or PossiblyCrashed, and
\* raises the error of the request when it is of any other kind.
C13_CloseTolerant == []C13_OneDelete /\ [][C13_Outcome]_vars

\* the DELETE of a close() on a bound client has raised InvalidSessionId
C13_Witness ==
    /\ call.op = "close"
    /\ Truthy(call.was)
    /\ At("fg", "close", "got")
    /\ cnt["fg"].own = 1
    /\ ret["fg"].k = "raise"
    /\ ret["fg"].v.cls = "WDAInvalidSessionIdError"

\* C14: a session() call whose session-creation POST fails with EmptyResponse
\* goes on to query the run-state of the app without a second session-creation
\* POST: a session() call sends at most one.
C14_NoSecondCreation == call.op = "session" => cnt["fg"].create <= 1

\* a step of a session() frame: the id of the client it runs on stays, and the
\* client it returns is a new instance that holds the id of the response
C15_Step ==
    (~Idle("fg") /\ Top("fg").fn = "session" /\ FgStep) =>
        LET self == Top("fg").self IN
        /\ self \in DOMAIN session_id'
        /\ session_id'[self] = session_id[self]
        /\ (Len(stack'["fg"]) < Len(stack["fg"]) /\ ret'["fg"].k = "client") =>
              /\ ret'["fg"].v = Len(session_id) + 1
              /\ ret'["fg"].v # self
              /\ Len(session_id') = Len(session_id) + 1
              /\ SubSeq(session_id', 1, Len(session_id)) = session_id
              /\ IF Top("fg").pc = "state"
                 THEN session_id'[ret'["fg"].v] = Get(ret["fg"].v, "sessionId", None)
                 ELSE \E resp \in OkResponses("session") :
                         session_id'[ret'["fg"].v] = Get(_fetch(resp).v, "sessionId", None)

\* during and after a session() call the client it was called on has the id it
\* had before, and the client returned is another instance
C15_Kept ==
    call.op = "session" =>
        /\ session_id[1] = call.was
        /\ (Idle("fg") /\ ret["fg"].k = "client") => ret["fg"].v # 1

\* C15: session() never modifies the session identifier of the client it is
\* called on: it returns a different client instance that holds the identifier
\* the response carries, and the original keeps the one it had, empty or not.
C15_OriginalKept == []C15_Kept /\ [][C15_Step]_vars

\* session() on a client bound to s1 has returned a client bound to s2
C15_Witness ==
    /\ call.op = "session"
    /\ call.was = "s1"
    /\ Idle("fg")
    /\ ret["fg"].k = "client"
    /\ session_id[1] = "s1"
    /\ session_id[ret["fg"].v] = "s2"

\* the frame on top of the foreground stack after the step
FgAfter == Head(stack'["fg"])

\* a step within the running frame, which stays on top of the stack
FgWithin == FgStep /\ Len(stack'["fg"]) = Len(stack["fg"]) /\ ~Idle("fg")

\* session() before its creation POST: it has asked for the lock state, and has
\* unlocked exactly when the device was reported locked
C16_Unlocked ==
    \A i \in 1..Len(stack["fg"]) :
        LET f == stack["fg"][i] IN
        f.fn = "session" =>
            /\ f.pc = "unlock" => (f.loc.locked /\ ~f.loc.unlocked)
            /\ f.pc = "post" => (f.loc.unlocked <=> f.loc.locked)

\* the order of the requests of session(): it starts with the lock query, the
\* unlock follows a query that reported locked, the creation POST follows the
\* query or the unlock, and no creation POST is sent from anywhere else
C16_Order ==
    /\ (FgStep /\ stack'["fg"] # <<>> /\ FgAfter.fn = "session"
          /\ Len(stack'["fg"]) > Len(stack["fg"])) => FgAfter.pc = "locked"
    /\ (FgWithin /\ FgAfter.fn = "session" /\ FgAfter.pc = "unlock") =>
          /\ At("fg", "session", "locked")
          /\ cnt'["fg"].create = cnt["fg"].create
    /\ (FgWithin /\ FgAfter.fn = "session" /\ FgAfter.pc = "post") =>
          /\ At("fg", "session", "locked") \/ At("fg", "session", "unlock")
          /\ cnt'["fg"].create = cnt["fg"].create
    /\ cnt'["fg"].create > cnt["fg"].create => At("fg", "session", "post")

\* C16: in every session() call the lock-state query precedes the creation
\* POST; an unlock request is issued if and only if the query reported the
\* device locked, and then it precedes the creation POST.
C16_LockBeforePost == []C16_Unlocked /\ [][C16_Order]_vars

\* session() has found the device locked, has unlocked it and is about to post
C16_Witness ==
    /\ call.op = "session"
    /\ At("fg", "session", "post")
    /\ Top("fg").loc.locked
    /\ Top("fg").loc.unlocked
    /\ cnt["fg"].create = 0

\* the status of the remote's envelope, 0 when it gave none
RemoteStatus == IF "status" \in DOMAIN raw.json THEN raw.json.status ELSE 0

\* C17: the error _fetch raises for a remote-reported failure carries the
\* status of the remote's envelope and the value without its traceback.
C17_CarriesRemoteStatus ==
    Classifiable =>
        /\ fres.k = "raise"
        /\ fres.v.status = RemoteStatus
        /\ fres.v.value = Pop(raw.json.value.d, "traceback")

\* the raw response has a body that is not empty and is not JSON
Undecodable == ~raw.exc /\ raw.status_code # 502 /\ raw.text = "<html>"

\* the kind raised for a network fault
TransportKind == _fetch(NetworkFault).v.cls

\* C18: a body that is not empty and not valid JSON fails with a kind of its
\* own, different from the kind raised for network faults.
C18_MalformedDistinct ==
    Undecodable => (fres.k = "raise" /\ fres.v.cls # TransportKind)

\* the raw response decodes to an envelope whose value is not a mapping or has
\* no truthy error field
Decoded == ~raw.exc /\ raw.status_code # 502 /\ raw.text = "json"

\* C20: when the decoded value has no truthy error field, or is not a mapping,
\* _fetch returns the envelope with the value unchanged and the status of the
\* remote, 0 when the remote gave none; the status never makes it an error.
C20_PassThrough ==
    (Decoded /\ ~Classifiable) =>
        /\ fres.k = "ok"
        /\ fres.v.value = raw.json.value
        /\ fres.v.sessionId = raw.json.sessionId
        /\ fres.v.status = RemoteStatus

\* an envelope with a non-zero status and an empty error field was returned
C20_Witness ==
    /\ Decoded
    /\ "status" \in DOMAIN raw.json
    /\ raw.json.status = 13
    /\ raw.json.value.dict
    /\ "error" \in DOMAIN raw.json.value.d
    /\ raw.json.value.d["error"] = ""
    /\ fres.k = "ok"
    /\ fres.v.status = 13

\* q begins with p
IsPrefix(p, q) == Len(p) <= Len(q) /\ SubSeq(q, 1, Len(p)) = p

\* C19: the URL of every session-scoped request of a client that holds an id
\* begins with Endpoint Base + "session/" + id + "/", whatever path of its own
\* operations the client passes, those written with a leading "/" included.
C19_SessionPrefix ==
    url # NoUrl =>
        /\ url.url.host = url.wda_url.host
        /\ IsPrefix(Front(url.wda_url.path) \o <<"session", url.sid>>, Front(url.url.path))

(***************************************************************************)
(* SpecRace: a block under watch_and_click on a client whose session id is *)
(* not known yet: the block's calls and the watcher's polls both go        *)
(* through the session_id getter of the one client they share.  The remote *)
(* has a session running, which may be replaced by another at any time:    *)
(* a status request fails or names a session.                              *)
(***************************************************************************)
InitRace == Init /\ session_id = <<"">>

Racers == {"fg", "alert"}

\* the status() that returns in this step names a session
RemoteHasSession(t) ==
    (stack'[t] = Tail(stack[t]) /\ ret'[t].k = "ok") => Truthy(ret'[t].v["sessionId"])

NextRace ==
    \/ watch_and_click /\ watch'.arg.none
    \/ block_call
    \/ Watcher
    \/ \E t \in Racers : SessionHttp(t)
    \/ \E t \in Racers : status_try(t) /\ RemoteHasSession(t)
    \/ \E t \in Racers : session_id_probed(t)

SpecRace == InitRace /\ [][NextRace]_vars

(***************************************************************************)
(* C21: each watch scope has its own watcher task and its own stop signal. *)
(* Leaving one scope changes only that scope's signal; a watcher thread    *)
(* standing at the head of its loop ends exactly when the signal of its    *)
(* own scope is set and otherwise sends the next buttons poll, whatever    *)
(* the signal of the other scope says.                                     *)
(***************************************************************************)
Polling(stk) ==
    /\ Len(stk) = 2
    /\ stk[1].fn = "_fetch"
    /\ stk[1].arg.path = "wda/alert/buttons"
    /\ stk[2].fn = "_inner"

C21_OwnSignal ==
    [][/\ watch'.event # watch.event => watch2'.event = watch2.event
       /\ watch2'.event # watch2.event => watch'.event = watch.event
       /\ \A t \in Watchers :
            At(t, "_inner", "loop") /\ stack'[t] # stack[t] =>
                IF Scope(t).event
                THEN stack'[t] = <<>> /\ ret'[t].k = "ok"
                ELSE Polling(stack'[t])]_vars

\* the first scope is left and its watcher has ended, the second scope is
\* open and its watcher has polled and goes on
C21_Witness ==
    /\ watch.state = "exited"
    /\ watch.event
    /\ stack["alert"] = <<>>
    /\ watch2.state = "open"
    /\ ~watch2.event
    /\ At("alert2", "_inner", "sleep")
    /\ Top("alert2").arg.polled

(***************************************************************************)
(* C22, as stated: once the client holds a non-empty session id, no step   *)
(* of the foreground thread or of the watcher replaces it with another     *)
(* value.                                                                  *)
(***************************************************************************)
C22_NeverReplaced ==
    [][Truthy(session_id[1]) => session_id'[1] = session_id[1]]_vars

(***************************************************************************)
(* C22, amended: the stored id changes only by the store of the getter: a  *)
(* thread whose own check found the id empty stores the non-empty id that  *)
(* status has just reported to it (the later of two such stores wins), and *)
(* a stored id is never emptied.                                           *)
(***************************************************************************)
C22_OnlyGetterStores ==
    [][session_id' # session_id =>
        /\ Truthy(session_id'[1])
        /\ \E t \in Racers :
            /\ At(t, "session_id", "probed")
            /\ Top(t).self = 1
            /\ ret[t].k = "ok"
            /\ session_id' = <<ret[t].v["sessionId"]>>
            /\ stack'[t] = Tail(stack[t])]_vars

\* the getter has handed s1 to the block's call, which has not sent its
\* request yet, and the client already holds s2: one store has replaced another
C22_Witness ==
    /\ watch.state = "open"
    /\ At("fg", "_fetch", "send")
    /\ call.was = ""
    /\ ret["fg"].k = "ok"
    /\ ret["fg"].v = "s1"
    /\ session_id[1] = "s2"

(***************************************************************************)
(* C23: wait_ready terminates; it probes only when the clock it has just   *)
(* read is before the deadline, which is the start time plus the timeout;  *)
(* it returns True at the first probe that succeeds, sleeps at least one   *)
(* second after a probe that fails, and returns False only from the loop   *)
(* test, when the deadline has passed.  The number of probes is at most    *)
(* the number of seconds of the timeout: no attempt counter ends the loop. *)
(***************************************************************************)
C23_Safe ==
    /\ ready.pc = "probe" => ready.now < ready.deadline
    /\ ready.probes <= ready.timeout
    /\ ready.pc # "done" => ready.result = None
    /\ ready.pc = "done" /\ ready.result = TRUE => fres.k = "ok" /\ ready.probes >= 1
    /\ ready.pc = "done" /\ ready.result = FALSE =>
            /\ ready.now >= ready.deadline
            /\ ready.probes >= 1 => fres.k = "raise"
    /\ ready.pc \in {"sleep", "while", "probe"} /\ ready.probes >= 1 => fres.k = "raise"

C23_Step ==
    /\ ready.pc = "call" => ready'.deadline = ready.now + ready.timeout
    /\ ready.pc # "call" => ready'.deadline = ready.deadline
    /\ ready.pc = "probe" => ready'.pc = (IF fres'.k = "ok" THEN "done" ELSE "sleep")
    /\ ready.pc = "sleep" => ready'.now >= ready.now + SleepSeconds
    /\ ready.pc = "while" /\ ready.now < ready.deadline => ready'.pc = "probe"

C23_WaitReady ==
    /\ []C23_Safe
    /\ [][C23_Step]_vars
    /\ <>(ready.pc = "done")

\* the remote is down for the whole timeout: a probe each second, every one
\* failed, then False
C23_Witness ==
    /\ ready.pc = "done"
    /\ ready.result = FALSE
    /\ ready.timeout = MaxTimeout
    /\ ready.probes = MaxTimeout
    /\ ready.now >= ready.deadline

(***************************************************************************)
(* C24: a client constructed from a base URL and a client constructed from *)
(* the same URL written the other way, with the trailing separator added   *)
(* or taken away, hold the same base and derive the same URL for every     *)
(* path, for a plain request and for a session-scoped one; normalizing the *)
(* normalized base changes nothing.                                        *)
(***************************************************************************)
\* the same URL with the trailing separator taken away, or added
Twin(u) ==
    IF u.path # <<>> /\ u.path[Len(u.path)] = ""
    THEN Url(u.host, Front(u.path))
    ELSE Url(u.host, Append(u.path, ""))

C24_SameUrls ==
    url # NoUrl =>
        LET other == init_url(Twin(url.arg)) IN
        /\ url.wda_url = other
        /\ url.plain = urljoin(other, url.urlpath)
        /\ url.url = session_url(other, url.sid, url.urlpath)
        /\ init_url(url.wda_url) = url.wda_url

\* a base written without the separator, under a path prefix
C24_Witness ==
    /\ url.arg.path = <<"proxy">>
    /\ url.urlpath = Rel(FALSE, <<"wda", "tap">>)
    /\ url.plain.path = <<"proxy", "wda", "tap">>
    /\ url.url.path = <<"proxy", "session", url.sid, "wda", "tap">>

(***************************************************************************)
(* C25: a call of session() ends after a bounded number of requests        *)
(* whatever the remote answers: the session-creation POSTs of one call     *)
(* stay below the depth the call stack is followed to.                     *)
(***************************************************************************)
C25_BoundedCreation == call.op = "session" => cnt["fg"].create < MaxDepth

(***************************************************************************)
(* C26: no error raised during a poll ends the watcher: the watcher thread *)
(* ends only when the stop signal of its scope is set.                     *)
(***************************************************************************)
C26_WatcherSurvives ==
    [][(stack["alert"] # <<>> /\ stack'["alert"] = <<>>) => watch.event]_vars

(***************************************************************************)
(* C27: close() never causes a session-creation POST.                      *)
(***************************************************************************)
C27_CloseCreatesNothing == call.op = "close" => cnt["fg"].create = 0

(***************************************************************************)
(* C28: close() leaves the session id of the client as it is.  No step of  *)
(* a close() frame writes it; on a client that holds an id when close() is *)
(* called, the id is the same during the call and after it, whether the    *)
(* DELETE succeeds, raises an error that close() swallows or raises one it *)
(* lets through; and the next call on the client starts from that id, a    *)
(* session-scoped one sending its request without a probe and without a    *)
(* creation.                                                               *)
(***************************************************************************)
C28_Held ==
    (call.op \in SessionOps /\ Truthy(call.was)) =>
        /\ session_id[1] = call.was
        /\ cnt["fg"].probe = 0
        /\ cnt["fg"].create = 0

C28_Step ==
    /\ (~Idle("fg") /\ Top("fg").fn = "close") => session_id' = session_id
    /\ (Idle("fg") /\ call.op = "close" /\ Truthy(call.was) /\ stack'["fg"] # <<>>) =>
            /\ call'.was = call.was
            /\ session_id' = <<call.was>>

C28_IdKept == []C28_Held /\ [][C28_Step]_vars

\* close() has returned normally on a client that held an id, its DELETE
\* sent: the client still holds the id
C28_Witness ==
    /\ Idle("fg")
    /\ call.op = "close"
    /\ Truthy(call.was)
    /\ cnt["fg"].own = 1
    /\ ret["fg"].k = "ok"
    /\ session_id = <<call.was>>

====
